---- MODULE Spec2Model ----
(***************************************************************************)
(* Recipe resolution of the Pax Dei crafting calculator                    *)
(* (src/streamlit_app.py): craftable_index, resolve, resolve_craftables.   *)
(* followed by the two quantity tables and render_tree of the script run.  *)
(*                                                                         *)
(* The recursive resolvers are modelled as an explicit call stack: one     *)
(* frame per Python activation, one action per stretch of code between two *)
(* calls/returns.  Dicts are functions whose DOMAIN is the key set.        *)
(* Display names are sequences of one-character strings so that            *)
(* str.lower() and the substring test are computed, not assumed.           *)
(***************************************************************************)
EXTENDS Integers, Sequences, FiniteSets, TLC

(***************************************************************************)
(* Bounds of the model                                                     *)
(***************************************************************************)
MaxNeeded == 3
MaxBatch == 3
MaxCount == 2
RecursionLimit == 12

\* the ranges the bounds span, with the values of the documented examples
\* (batch 5 requested for 7; 4 planks per table)
SliderValues == (1..MaxNeeded) \cup {7}
Batches == (1..MaxBatch) \cup {5}
Counts == (1..MaxCount) \cup {4}

(***************************************************************************)
(* JSON data: absent keys                                                  *)
(***************************************************************************)
\* an ingredient whose "entity" has no "id" key
NoId == ""
\* an ingredient or output with no "count" key
NoCount == -1

(***************************************************************************)
(* Python dict helpers                                                     *)
(***************************************************************************)
EmptyDict == [m \in {} |-> 0]

Single(k, v) == [m \in {k} |-> v]

\* d.get(k, default)
Get(d, k, default) == IF k \in DOMAIN d THEN d[k] ELSE default

\* for mat, qty in sub_tree.items(): breakdown[mat] = breakdown.get(mat, 0) + qty
Merge(breakdown, sub_tree) ==
  [mat \in DOMAIN breakdown \cup DOMAIN sub_tree |->
     IF mat \in DOMAIN sub_tree
     THEN Get(breakdown, mat, 0) + sub_tree[mat]
     ELSE breakdown[mat]]

(***************************************************************************)
(* Strings as character sequences: str.lower() and the `in` substring test *)
(***************************************************************************)
UpperCase == <<"A","B","C","D","E","F","G","H","I","J","K","L","M",
               "N","O","P","Q","R","S","T","U","V","W","X","Y","Z">>
LowerCase == <<"a","b","c","d","e","f","g","h","i","j","k","l","m",
               "n","o","p","q","r","s","t","u","v","w","x","y","z">>

\* the lower-case letter of each upper-case one
ToLower ==
  [c \in {UpperCase[k] : k \in 1..26} |->
     LowerCase[CHOOSE k \in 1..26 : UpperCase[k] = c]]

LowerChar(c) == IF c \in DOMAIN ToLower THEN ToLower[c] ELSE c

Lower(s) == [k \in 1..Len(s) |-> LowerChar(s[k])]

\* sub in s
Contains(sub, s) ==
  \E k \in 0..(Len(s) - Len(sub)) : SubSeq(s, k + 1, k + Len(sub)) = sub

\* items.get(item_id, {}).get("name", "")
NameOf(item_id, its) == IF item_id \in DOMAIN its THEN its[item_id].name ELSE <<>>

\* the test without .lower()
is_sand_item_case_sensitive(item_id, its) ==
  Contains(<<"s","a","n","d">>, NameOf(item_id, its))

is_sand_item(item_id, its) ==
  Contains(<<"s","a","n","d">>, Lower(NameOf(item_id, its)))

is_charcoal_item(item_id, its) ==
  Contains(<<"c","h","a","r","c","o","a","l">>, Lower(NameOf(item_id, its)))

(***************************************************************************)
(* Catalogs                                                                *)
(***************************************************************************)
DisplayName ==
  [i \in {"wood","plank","table","leg","house","sand","limestone","glass","charcoal"} |->
     CASE i = "wood"      -> <<"W","o","o","d">>
       [] i = "plank"     -> <<"P","l","a","n","k">>
       [] i = "table"     -> <<"T","a","b","l","e">>
       [] i = "leg"       -> <<"L","e","g">>
       [] i = "house"     -> <<"H","o","u","s","e">>
       [] i = "sand"      -> <<"F","i","n","e"," ","S","a","n","d">>
       [] i = "limestone" -> <<"L","i","m","e","s","t","o","n","e">>
       [] i = "glass"     -> <<"G","l","a","s","s">>
       [] i = "charcoal"  -> <<"C","H","A","R","C","O","A","L">>]

ItemsOf(S) == [i \in S |-> [name |-> DisplayName[i]]]

\* an entry of "outputs" or "itemIngredients": entity id and count
E(id, count) == [id |-> id, count |-> count]

Rec(id, name, outputs, ings) ==
  [id |-> id, name |-> name, outputs |-> outputs, itemIngredients |-> ings]

RPlank(b, ings) == Rec("r_plank", "Plank", <<E("plank", b)>>, ings)
RTable(b, ings) == Rec("r_table", "Table", <<E("table", b)>>, ings)
RLeg(b, ings) == Rec("r_leg", "Leg", <<E("leg", b)>>, ings)
RHouse(b, ings) == Rec("r_house", "House", <<E("house", b)>>, ings)

\* the dict {entry["id"]: entry for entry in data}, looked up by key
AsDict(seq) ==
  [rid \in {seq[k].id : k \in DOMAIN seq} |->
     seq[CHOOSE k \in DOMAIN seq : seq[k].id = rid]]

Without(d, rid) == [r \in DOMAIN d \ {rid} |-> d[r]]

NoOutputs(d, rid) == [d EXCEPT ![rid].outputs = <<>>]

Cat(shape, its, loaded, recs) ==
  [shape |-> shape, items |-> ItemsOf(its), loaded |-> loaded, recipes |-> recs]

\* the app passes recipes = load_recipes()
App(shape, its, loaded) == Cat(shape, its, loaded, AsDict(loaded))

\* wood -> plank -> table
Linear ==
  { App("linear", {"wood","plank","table"},
        << RPlank(b1, <<E("wood", c1)>>), RTable(b2, <<E("plank", c2)>>) >>) :
      <<b1, b2, c1, c2>> \in Batches \X Batches \X Counts \X Counts }

\* wood -> plank -> table -> house
Chain ==
  { App("chain", {"wood","plank","table","house"},
        << RPlank(1, <<E("wood", 2)>>), RTable(b, <<E("plank", c)>>),
           RHouse(1, <<E("table", c)>>) >>) :
      <<b, c>> \in Batches \X Counts }

\* table needs plank, leg and wood; plank and leg both need wood
Diamond ==
  { App("diamond", {"wood","plank","table","leg"},
        << RPlank(b, <<E("wood", c)>>), RLeg(1, <<E("wood", 3)>>),
           RTable(1, <<E("plank", 2), E("leg", c), E("wood", 1)>>) >>) :
      <<b, c>> \in Batches \X Counts }

\* the same ingredient listed twice
Twice ==
  { App("twice", {"wood","plank","table"},
        << RPlank(b, <<E("wood", 2)>>),
           RTable(1, <<E("plank", c), E("plank", 1)>>) >>) :
      <<b, c>> \in Batches \X Counts }

\* plank needs table and table needs plank
Cycle ==
  { App("cycle", {"wood","plank","table"},
        << RPlank(b, <<E("table", 1), E("wood", c)>>),
           RTable(1, <<E("plank", c), E("wood", 1)>>) >>) :
      <<b, c>> \in Batches \X Counts }

\* table is its own ingredient
SelfLoop ==
  { App("self", {"wood","table"},
        << RTable(b, <<E("table", c), E("wood", 2)>>) >>) :
      <<b, c>> \in Batches \X Counts }

\* sand and charcoal have producing recipes
Override ==
  { App("override", {"wood","sand","limestone","glass","charcoal"},
        << Rec("r_sand", "Sand", <<E("sand", b)>>, <<E("limestone", 2)>>),
           Rec("r_charcoal", "Charcoal", <<E("charcoal", 1)>>, <<E("wood", c)>>),
           Rec("r_glass", "Glass", <<E("glass", b)>>,
               <<E("sand", c), E("charcoal", 1)>>) >>) :
      <<b, c>> \in Batches \X Counts }

\* two recipes declare plank; one recipe declares two outputs
Producers ==
  { App("producers", {"wood","plank","table","leg","limestone"},
        << Rec("r_plank", "Plank", <<E("plank", b)>>, <<E("wood", c)>>),
           Rec("r_both", "Leg and plank", <<E("leg", 1), E("plank", 2)>>,
               <<E("limestone", c)>>),
           RTable(1, <<E("plank", 2), E("leg", 1)>>) >>) :
      <<b, c>> \in Batches \X Counts }
  \cup
  { App("producers", {"wood","plank","table","leg","limestone"},
        << Rec("r_both", "Leg and plank", <<E("leg", 1), E("plank", 2)>>,
               <<E("limestone", c)>>),
           Rec("r_plank", "Plank", <<E("plank", b)>>, <<E("wood", c)>>),
           RTable(1, <<E("plank", 2), E("leg", 1)>>) >>) :
      <<b, c>> \in Batches \X Counts }

\* the recipes passed to the resolver differ from the indexed ones
LinearLoaded(b, c) ==
  << RPlank(b, <<E("wood", c)>>), RTable(1, <<E("plank", c), E("wood", 1)>>) >>

Missing ==
  { Cat("missing", {"wood","plank","table"}, LinearLoaded(b, c),
        Without(AsDict(LinearLoaded(b, c)), rid)) :
      <<b, c, rid>> \in Batches \X Counts \X {"r_plank", "r_table"} }
  \cup
  { Cat("no_outputs", {"wood","plank","table"}, LinearLoaded(b, c),
        NoOutputs(AsDict(LinearLoaded(b, c)), rid)) :
      <<b, c, rid>> \in Batches \X Counts \X {"r_plank", "r_table"} }

\* malformed entries: unknown item, absent id, absent count, batch 0 or absent
Malformed ==
  { App("unknown_item", {"wood","plank","table"},
        << RPlank(b, <<E("ghost", c)>>), RTable(1, <<E("plank", c), E("ghost", 1)>>) >>) :
      <<b, c>> \in Batches \X Counts }
  \cup
  { App("no_id", {"wood","plank","table"},
        << RPlank(b, <<E("wood", c)>>), RTable(1, <<E(NoId, c), E("plank", 1)>>) >>) :
      <<b, c>> \in Batches \X Counts }
  \cup
  { App("no_count", {"wood","plank","table"},
        << RPlank(b, <<E("wood", c)>>), RTable(1, <<E("wood", NoCount), E("plank", c)>>) >>) :
      <<b, c>> \in Batches \X Counts }
  \cup
  { App("batch_zero", {"wood","plank","table"},
        << RPlank(0, <<E("wood", c)>>), RTable(b, <<E("plank", c)>>) >>) :
      <<b, c>> \in Batches \X Counts }
  \cup
  { App("batch_absent", {"wood","plank","table"},
        << RPlank(NoCount, <<E("wood", c)>>), RTable(b, <<E("plank", c)>>) >>) :
      <<b, c>> \in Batches \X Counts }

\* one recipe declares leg first and plank second, with their own counts
MultiOutput ==
  { App("multi_output", {"wood","plank","table","leg"},
        << Rec("r_both", "Leg and plank", <<E("leg", b), E("plank", c)>>,
               <<E("wood", 1)>>),
           RTable(1, <<E("plank", 2), E("leg", 1)>>) >>) :
      <<b, c>> \in Batches \X Counts }

Catalogs ==
  Linear \cup Chain \cup Diamond \cup Twice \cup Cycle \cup SelfLoop
    \cup Override \cup Producers \cup Missing \cup Malformed \cup MultiOutput

\* item ids a call can be made for: the catalog's items and an unknown one
Targets(cat) == DOMAIN cat.items \cup {"ghost"}

(***************************************************************************)
(* craftable_index: one pass over load_recipes().items(), later writes     *)
(* replacing earlier ones                                                  *)
(***************************************************************************)
\* the first writer kept
AssignIfAbsent(index, k, v) ==
  [m \in DOMAIN index \cup {k} |-> IF m \in DOMAIN index THEN index[m] ELSE v]

\* index[k] = v
Assign(index, k, v) == [m \in DOMAIN index \cup {k} |-> IF m = k THEN v ELSE index[m]]

RECURSIVE IndexOutputs(_, _, _)
\* for out in recipe.get("outputs", []): index[out["entity"]["id"]] = recipe_id
IndexOutputs(index, recipe_id, outputs) ==
  IF outputs = <<>> THEN index
  ELSE IndexOutputs(Assign(index, Head(outputs).id, recipe_id), recipe_id, Tail(outputs))

RECURSIVE IndexRecipes(_, _)
\* for recipe_id, recipe in load_recipes().items(): ...
IndexRecipes(index, rs) ==
  IF rs = <<>> THEN index
  ELSE IndexRecipes(IndexOutputs(index, Head(rs).id, Head(rs).outputs), Tail(rs))

craftable_index(rs) == IndexRecipes(EmptyDict, rs)

(***************************************************************************)
(* State                                                                   *)
(***************************************************************************)
VARIABLES
  items,            \* load_items(): item id -> item
  loaded,           \* load_recipes(): the recipes in iteration order
  recipes,          \* the recipes argument of the resolvers
  shape,            \* which family of catalogs the data belongs to
  target_id,        \* the item the top-level calls are made for
  number_to_craft,  \* the slider value, passed as needed=
  phase,            \* position of the script run
  stack,            \* activations of resolve / resolve_craftables
  index_cache,      \* lru_cache of craftable_index()
  raw,              \* result of resolve(target_id, needed=number_to_craft)
  craftables,       \* result of resolve_craftables(target_id, needed=...)
  unit_raw,         \* result of resolve(target_id, needed=1)
  have,             \* which of raw, craftables, unit_raw hold a result
  error,            \* the last exception that ended a top-level call, "" if none
  last,             \* the most recent return of an activation
  df_raw,           \* the "Raw Materials Needed" table: Item -> Quantity
  df_craft,         \* the "Intermediate Crafting" table: one row per intermediate
  rstack,           \* activations of render_tree
  tree,             \* the text render_tree(target_id, recipes) returned, as lines
  shown,            \* which of df_raw, df_craft, tree were produced in this run
  ui_error          \* the last exception of the display code, "" if none

vars == <<items, loaded, recipes, shape, target_id, number_to_craft, phase, stack,
          index_cache, raw, craftables, unit_raw, have, error, last,
          df_raw, df_craft, rstack, tree, shown, ui_error>>

data == <<items, loaded, recipes, shape, target_id>>

ui == <<df_raw, df_craft, rstack, tree, shown, ui_error>>

NoRecipe == Rec("", "", <<>>, <<>>)

NoLast == [fn |-> "", item_id |-> "", needed |-> 0, is_root |-> TRUE, depth |-> 0,
           value |-> EmptyDict, cause |-> ""]

\* a fresh activation, before its first statement
Frame(fn, item_id, visited, needed, is_root) ==
  [fn |-> fn, item_id |-> item_id, visited |-> visited, needed |-> needed,
   is_root |-> is_root, pc |-> "enter", recipe |-> NoRecipe, crafts_needed |-> 0,
   i |-> 1, breakdown |-> EmptyDict]

Top == stack[Len(stack)]

Init ==
  /\ \E cat \in Catalogs :
       /\ items = cat.items
       /\ loaded = cat.loaded
       /\ recipes = cat.recipes
       /\ shape = cat.shape
       /\ target_id \in Targets(cat)
  /\ number_to_craft = 1
  /\ phase = "start"
  /\ stack = <<>>
  /\ index_cache = [cached |-> FALSE, value |-> EmptyDict]
  /\ raw = EmptyDict
  /\ craftables = EmptyDict
  /\ unit_raw = EmptyDict
  /\ have = {}
  /\ error = ""
  /\ last = NoLast
  /\ df_raw = EmptyDict
  /\ df_craft = EmptyDict
  /\ rstack = <<>>
  /\ tree = <<>>
  /\ shown = {}
  /\ ui_error = ""

\* the value craftable_index() returns, computed on the first call only
Index == IF index_cache.cached THEN index_cache.value ELSE craftable_index(loaded)

(***************************************************************************)
(* The statements of both resolvers up to the ingredient loop              *)
(***************************************************************************)
\* outputs[0].get("count", 1)
OutputStack(recipe) ==
  IF Head(recipe.outputs).count = NoCount THEN 1 ELSE Head(recipe.outputs).count

\* needed // output_stack
CraftsNeededFloor(needed, output_stack) == needed \div output_stack

\* (needed + output_stack) // output_stack
CraftsNeededOneMore(needed, output_stack) == (needed + output_stack) \div output_stack

\* (needed + output_stack - 1) // output_stack
CraftsNeeded(needed, output_stack) == (needed + output_stack - 1) \div output_stack

Returns(value, cause) == [kind |-> "return", value |-> value, cause |-> cause,
                          exc |-> "", frame |-> NoRecipe]
Raises(exc) == [kind |-> "raise", value |-> EmptyDict, cause |-> "", exc |-> exc,
                frame |-> NoRecipe]
Expands(f) == [kind |-> "expand", value |-> EmptyDict, cause |-> "", exc |-> "",
               frame |-> f]

\* no cycle guard
OnPathIgnored(f) == FALSE

\* if item_id in visited: return {}
OnPath(f) == f.item_id \in f.visited

\* is_sand_item(item_id, items) or is_charcoal_item(item_id, items)
Overridden(item_id, its) == is_sand_item(item_id, its) \/ is_charcoal_item(item_id, its)

\* {item_id: 1}, whatever is needed
AsRawUnit(f) == Single(f.item_id, 1)

\* return {item_id: needed}
AsRaw(f) == Single(f.item_id, f.needed)

\* resolve, lines 81-112
ResolveHead(f, its, recs, index) ==
  IF OnPath(f) THEN Returns(EmptyDict, "visited")
  ELSE IF Overridden(f.item_id, its) THEN Returns(AsRaw(f), "override")
  ELSE IF f.item_id \notin DOMAIN index THEN Returns(AsRaw(f), "raw")
  ELSE IF index[f.item_id] \notin DOMAIN recs
       THEN Returns(AsRaw(f), "missing_recipe")
  ELSE LET recipe == recs[index[f.item_id]] IN
       IF recipe.outputs = <<>> THEN Returns(AsRaw(f), "no_outputs")
       ELSE IF OutputStack(recipe) = 0 THEN Raises("ZeroDivisionError")
       ELSE Expands([f EXCEPT !.pc = "loop",
                              !.visited = f.visited \cup {f.item_id},
                              !.recipe = recipe,
                              !.crafts_needed = CraftsNeeded(f.needed, OutputStack(recipe)),
                              !.i = 1,
                              !.breakdown = EmptyDict])

\* resolve_craftables, lines 142-177
CraftablesHead(f, its, recs, index) ==
  IF OnPath(f) THEN Returns(EmptyDict, "visited")
  ELSE IF Overridden(f.item_id, its) THEN Returns(EmptyDict, "override")
  ELSE IF f.item_id \notin DOMAIN index THEN Returns(EmptyDict, "raw")
  ELSE IF index[f.item_id] \notin DOMAIN recs THEN Returns(EmptyDict, "missing_recipe")
  ELSE LET recipe == recs[index[f.item_id]] IN
       IF recipe.outputs = <<>> THEN Returns(EmptyDict, "no_outputs")
       ELSE IF OutputStack(recipe) = 0 THEN Raises("ZeroDivisionError")
       ELSE IF ~f.is_root
            THEN Returns(Single(f.item_id, CraftsNeeded(f.needed, OutputStack(recipe))),
                         "intermediate")
       ELSE Expands([f EXCEPT !.pc = "loop",
                              !.visited = f.visited \cup {f.item_id},
                              !.recipe = recipe,
                              !.crafts_needed = CraftsNeeded(f.needed, OutputStack(recipe)),
                              !.i = 1,
                              !.breakdown = EmptyDict])

\* craftable_index() is reached once the visited and override tests are passed
ReachesIndex(f, its) == ~OnPath(f) /\ ~Overridden(f.item_id, its)

(***************************************************************************)
(* Returning and raising                                                   *)
(***************************************************************************)
\* one visited set shared by all activations: what the callee added stays
\* in the caller's set
ReturnSharedVisited(value, cause) ==
  /\ last' = [fn |-> Top.fn, item_id |-> Top.item_id, needed |-> Top.needed,
              is_root |-> Top.is_root, depth |-> Len(stack), value |-> value,
              cause |-> cause]
  /\ error' = error
  /\ IF Len(stack) > 1
     THEN LET caller == stack[Len(stack) - 1] IN
          /\ stack' = [SubSeq(stack, 1, Len(stack) - 1) EXCEPT
                         ![Len(stack) - 1] =
                            [caller EXCEPT !.breakdown = Merge(caller.breakdown, value),
                                           !.visited = caller.visited \cup Top.visited
                                                         \cup {Top.item_id},
                                           !.i = caller.i + 1]]
          /\ UNCHANGED <<phase, raw, craftables, unit_raw, have>>
     ELSE /\ stack' = <<>>
          /\ IF Top.fn = "resolve"
             THEN /\ phase' = "resolved"
                  /\ raw' = value
                  /\ unit_raw' = IF Top.needed = 1 THEN value ELSE unit_raw
                  /\ have' = have \cup {"raw"}
                               \cup (IF Top.needed = 1 THEN {"unit_raw"} ELSE {})
                  /\ UNCHANGED craftables
             ELSE /\ phase' = "crafted"
                  /\ craftables' = value
                  /\ have' = have \cup {"craftables"}
                  /\ UNCHANGED <<raw, unit_raw>>

\* the activation on top returns value: the caller merges it into its
\* breakdown and moves to its next ingredient; with no caller the script
\* receives it
Return(value, cause) ==
  /\ last' = [fn |-> Top.fn, item_id |-> Top.item_id, needed |-> Top.needed,
              is_root |-> Top.is_root, depth |-> Len(stack), value |-> value,
              cause |-> cause]
  /\ error' = error
  /\ IF Len(stack) > 1
     THEN LET caller == stack[Len(stack) - 1] IN
          /\ stack' = [SubSeq(stack, 1, Len(stack) - 1) EXCEPT
                         ![Len(stack) - 1] =
                            [caller EXCEPT !.breakdown = Merge(caller.breakdown, value),
                                           !.i = caller.i + 1]]
          /\ UNCHANGED <<phase, raw, craftables, unit_raw, have>>
     ELSE /\ stack' = <<>>
          /\ IF Top.fn = "resolve"
             THEN /\ phase' = "resolved"
                  /\ raw' = value
                  /\ unit_raw' = IF Top.needed = 1 THEN value ELSE unit_raw
                  /\ have' = have \cup {"raw"}
                               \cup (IF Top.needed = 1 THEN {"unit_raw"} ELSE {})
                  /\ UNCHANGED craftables
             ELSE /\ phase' = "crafted"
                  /\ craftables' = value
                  /\ have' = have \cup {"craftables"}
                  /\ UNCHANGED <<raw, unit_raw>>

\* an exception unwinds every activation and ends the top-level call; the
\* two top-level calls are followed separately, so the next one is still made
Raise(exc) ==
  /\ stack' = <<>>
  /\ error' = exc
  /\ phase' = IF stack[1].fn = "resolve" THEN "resolved" ELSE "crafted"
  /\ UNCHANGED <<raw, craftables, unit_raw, have, last>>

\* the recursive call made without is_root=False
CallAsRoot(fn, ing_id, sub_needed) ==
  IF Len(stack) >= RecursionLimit
  THEN Raise("RecursionError")
  ELSE /\ stack' = Append(stack, Frame(fn, ing_id, Top.visited, sub_needed, TRUE))
       /\ UNCHANGED <<phase, raw, craftables, unit_raw, have, error, last>>

\* a recursive call: a new activation with a copy of the caller's visited set
Call(fn, ing_id, sub_needed) ==
  IF Len(stack) >= RecursionLimit
  THEN Raise("RecursionError")
  ELSE /\ stack' = Append(stack, Frame(fn, ing_id, Top.visited, sub_needed, FALSE))
       /\ UNCHANGED <<phase, raw, craftables, unit_raw, have, error, last>>

Enter(head) ==
  /\ index_cache' = IF ReachesIndex(Top, items)
                    THEN [cached |-> TRUE, value |-> Index]
                    ELSE index_cache
  /\ CASE head.kind = "return" -> Return(head.value, head.cause)
       [] head.kind = "raise"  -> Raise(head.exc)
       [] head.kind = "expand" ->
            /\ stack' = [stack EXCEPT ![Len(stack)] = head.frame]
            /\ UNCHANGED <<phase, raw, craftables, unit_raw, have, error, last>>

(***************************************************************************)
(* resolve                                                                 *)
(***************************************************************************)
\* raw = resolve(target_id, items, recipes, needed=number_to_craft)
CallResolve ==
  /\ phase = "start"
  /\ phase' = "resolve"
  /\ stack' = <<Frame("resolve", target_id, {}, number_to_craft, TRUE)>>
  /\ UNCHANGED <<data, ui, number_to_craft, index_cache, raw, craftables, unit_raw,
                 have, error, last>>

ResolveEnter ==
  /\ stack # <<>>
  /\ Top.fn = "resolve"
  /\ Top.pc = "enter"
  /\ Enter(ResolveHead(Top, items, recipes, Index))
  /\ UNCHANGED <<data, ui, number_to_craft>>

\* one iteration of the ingredient loop, up to the recursive call
ResolveIngredient ==
  /\ stack # <<>>
  /\ Top.fn = "resolve"
  /\ Top.pc = "loop"
  /\ Top.i <= Len(Top.recipe.itemIngredients)
  /\ LET ing == Top.recipe.itemIngredients[Top.i] IN
       IF ing.id = NoId \/ ing.count = NoCount
       THEN Raise("KeyError")
       ELSE Call("resolve", ing.id, ing.count * Top.crafts_needed)
  /\ UNCHANGED <<data, ui, number_to_craft, index_cache>>

\* return breakdown
ResolveFinish ==
  /\ stack # <<>>
  /\ Top.fn = "resolve"
  /\ Top.pc = "loop"
  /\ Top.i > Len(Top.recipe.itemIngredients)
  /\ Return(Top.breakdown, "expanded")
  /\ UNCHANGED <<data, ui, number_to_craft, index_cache>>

(***************************************************************************)
(* resolve_craftables                                                      *)
(***************************************************************************)
\* craftables = resolve_craftables(target_id, items, recipes, needed=number_to_craft)
CallCraftables ==
  /\ phase = "raw_shown"
  /\ phase' = "craftables"
  /\ stack' = <<Frame("resolve_craftables", target_id, {}, number_to_craft, TRUE)>>
  /\ UNCHANGED <<data, ui, number_to_craft, index_cache, raw, craftables, unit_raw,
                 have, error, last>>

CraftablesEnter ==
  /\ stack # <<>>
  /\ Top.fn = "resolve_craftables"
  /\ Top.pc = "enter"
  /\ Enter(CraftablesHead(Top, items, recipes, Index))
  /\ UNCHANGED <<data, ui, number_to_craft>>

\* ing.get("count", 1)
CountOr1(ing) == IF ing.count = NoCount THEN 1 ELSE ing.count

\* one iteration of the ingredient loop, up to the recursive call or continue
CraftablesIngredient ==
  /\ stack # <<>>
  /\ Top.fn = "resolve_craftables"
  /\ Top.pc = "loop"
  /\ Top.i <= Len(Top.recipe.itemIngredients)
  /\ LET ing == Top.recipe.itemIngredients[Top.i] IN
       IF ing.id = NoId
       THEN /\ stack' = [stack EXCEPT ![Len(stack)].i = Top.i + 1]
            /\ UNCHANGED <<phase, raw, craftables, unit_raw, have, error, last>>
       ELSE Call("resolve_craftables", ing.id, CountOr1(ing) * Top.crafts_needed)
  /\ UNCHANGED <<data, ui, number_to_craft, index_cache>>

\* return breakdown
CraftablesFinish ==
  /\ stack # <<>>
  /\ Top.fn = "resolve_craftables"
  /\ Top.pc = "loop"
  /\ Top.i > Len(Top.recipe.itemIngredients)
  /\ Return(Top.breakdown, "expanded")
  /\ UNCHANGED <<data, ui, number_to_craft, index_cache>>

(***************************************************************************)
(* The two tables of the page                                              *)
(***************************************************************************)
resolver == <<stack, index_cache, raw, craftables, unit_raw, have, error, last>>

\* prettify_breakdown: the quantities keyed by display name.  The emoji put
\* before the name is left out; the catalogs give every item its own name.
prettify_breakdown(breakdown, its) ==
  [name \in {its[item_id].name : item_id \in DOMAIN breakdown} |->
     breakdown[CHOOSE item_id \in DOMAIN breakdown : its[item_id].name = name]]

\* raw_pretty = prettify_breakdown(raw, items); df_raw = the rows
\* {"Item": name, "Quantity": qty * number_to_craft}
ShowRaw ==
  /\ phase = "resolved"
  /\ phase' = "raw_shown"
  /\ IF "raw" \notin have
     THEN UNCHANGED <<df_raw, shown, ui_error>>
     ELSE IF \E item_id \in DOMAIN raw : item_id \notin DOMAIN items
     THEN /\ ui_error' = "KeyError"
          /\ UNCHANGED <<df_raw, shown>>
     ELSE LET raw_pretty == prettify_breakdown(raw, items) IN
          /\ df_raw' = [name \in DOMAIN raw_pretty |-> raw_pretty[name] * number_to_craft]
          /\ shown' = shown \cup {"df_raw"}
          /\ UNCHANGED ui_error
  /\ UNCHANGED <<data, resolver, number_to_craft, df_craft, rstack, tree>>

\* craft_rows: for each intermediate the row {"Item": display_name,
\* "Quantity": qty * number_to_craft, ...}; skill and level are not modelled
ShowCraft ==
  /\ phase = "crafted"
  /\ phase' = "tree"
  /\ IF "craftables" \notin have
     THEN UNCHANGED <<df_craft, shown, ui_error>>
     ELSE IF \E item_id \in DOMAIN craftables : item_id \notin DOMAIN items
     THEN /\ ui_error' = "KeyError"
          /\ UNCHANGED <<df_craft, shown>>
     ELSE /\ df_craft' = [item_id \in DOMAIN craftables |->
                            [Item |-> items[item_id].name,
                             Quantity |-> craftables[item_id] * number_to_craft]]
          /\ shown' = shown \cup {"df_craft"}
          /\ UNCHANGED ui_error
  /\ UNCHANGED <<data, resolver, number_to_craft, df_raw, rstack, tree>>

(***************************************************************************)
(* render_tree                                                             *)
(***************************************************************************)
\* the characters of the strings that are formatted into the tree
Chars ==
  [str \in {"wood", "plank", "table", "leg", "house", "sand", "limestone", "glass", "charcoal", "ghost", "Plank", "Table", "Leg", "House", "Sand", "Charcoal", "Glass", "Leg and plank"} |->
     CASE str = "wood" -> <<"w","o","o","d">>
       [] str = "plank" -> <<"p","l","a","n","k">>
       [] str = "table" -> <<"t","a","b","l","e">>
       [] str = "leg" -> <<"l","e","g">>
       [] str = "house" -> <<"h","o","u","s","e">>
       [] str = "sand" -> <<"s","a","n","d">>
       [] str = "limestone" -> <<"l","i","m","e","s","t","o","n","e">>
       [] str = "glass" -> <<"g","l","a","s","s">>
       [] str = "charcoal" -> <<"c","h","a","r","c","o","a","l">>
       [] str = "ghost" -> <<"g","h","o","s","t">>
       [] str = "Plank" -> <<"P","l","a","n","k">>
       [] str = "Table" -> <<"T","a","b","l","e">>
       [] str = "Leg" -> <<"L","e","g">>
       [] str = "House" -> <<"H","o","u","s","e">>
       [] str = "Sand" -> <<"S","a","n","d">>
       [] str = "Charcoal" -> <<"C","h","a","r","c","o","a","l">>
       [] str = "Glass" -> <<"G","l","a","s","s">>
       [] str = "Leg and plank" -> <<"L","e","g"," ","a","n","d"," ","p","l","a","n","k">>]

\* ing["entity"]["name"]: the entity of an ingredient carries the display
\* name of its item, or its id when the item is unknown
EntityName(ing) ==
  IF ing.id \in DOMAIN DisplayName THEN DisplayName[ing.id] ELSE Chars[ing.id]

\* f"{spacer}- {item_id} (raw)\n"
RawLine(indent, item_id) ==
  [indent |-> indent, kind |-> "raw", text |-> Chars[item_id], count |-> 0]

\* f"{spacer}- {recipe['name']}\n"
RecipeLine(indent, recipe) ==
  [indent |-> indent, kind |-> "recipe", text |-> Chars[recipe.name], count |-> 0]

\* f"{spacer}  {name} x{qty}\n"
IngredientLine(indent, ing) ==
  [indent |-> indent, kind |-> "ingredient", text |-> EntityName(ing),
   count |-> ing.count]

RenderFrame(item_id, indent) ==
  [item_id |-> item_id, indent |-> indent, pc |-> "enter", recipe |-> NoRecipe,
   i |-> 1, s |-> <<>>]

RTop == rstack[Len(rstack)]

\* the activation on top returns text: the caller appends it to its own
RenderReturn(text) ==
  /\ ui_error' = ui_error
  /\ IF Len(rstack) > 1
     THEN LET caller == rstack[Len(rstack) - 1] IN
          /\ rstack' = [SubSeq(rstack, 1, Len(rstack) - 1) EXCEPT
                          ![Len(rstack) - 1] =
                             [caller EXCEPT !.s = caller.s \o text,
                                            !.i = caller.i + 1]]
          /\ UNCHANGED <<phase, tree, shown>>
     ELSE /\ rstack' = <<>>
          /\ phase' = "done"
          /\ tree' = text
          /\ shown' = shown \cup {"tree"}

RenderRaise(exc) ==
  /\ rstack' = <<>>
  /\ ui_error' = exc
  /\ phase' = "done"
  /\ UNCHANGED <<tree, shown>>

\* st.code(render_tree(target_id, recipes))
CallRenderTree ==
  /\ phase = "tree"
  /\ phase' = "render"
  /\ rstack' = <<RenderFrame(target_id, 0)>>
  /\ UNCHANGED <<data, resolver, number_to_craft, df_raw, df_craft, tree, shown, ui_error>>

\* render_tree, lines 214-221
RenderEnter ==
  /\ rstack # <<>>
  /\ RTop.pc = "enter"
  /\ index_cache' = [cached |-> TRUE, value |-> Index]
  /\ IF RTop.item_id \notin DOMAIN Index
     THEN RenderReturn(<<RawLine(RTop.indent, RTop.item_id)>>)
     ELSE IF Index[RTop.item_id] \notin DOMAIN recipes
     THEN RenderRaise("KeyError")
     ELSE LET recipe == recipes[Index[RTop.item_id]] IN
          /\ rstack' = [rstack EXCEPT ![Len(rstack)] =
                          [RTop EXCEPT !.pc = "loop",
                                       !.recipe = recipe,
                                       !.i = 1,
                                       !.s = <<RecipeLine(RTop.indent, recipe)>>]]
          /\ UNCHANGED <<phase, tree, shown, ui_error>>
  /\ UNCHANGED <<data, number_to_craft, stack, raw, craftables, unit_raw, have, error,
                 last, df_raw, df_craft>>

\* one iteration of the ingredient loop, up to the recursive call
RenderIngredient ==
  /\ rstack # <<>>
  /\ RTop.pc = "loop"
  /\ RTop.i <= Len(RTop.recipe.itemIngredients)
  /\ LET ing == RTop.recipe.itemIngredients[RTop.i] IN
       IF ing.id = NoId \/ ing.count = NoCount
       THEN RenderRaise("KeyError")
       ELSE IF Len(rstack) >= RecursionLimit
       THEN RenderRaise("RecursionError")
       ELSE /\ rstack' =
                 Append([rstack EXCEPT ![Len(rstack)].s =
                           RTop.s \o <<IngredientLine(RTop.indent, ing)>>],
                        RenderFrame(ing.id, RTop.indent + 2))
            /\ UNCHANGED <<phase, tree, shown, ui_error>>
  /\ UNCHANGED <<data, resolver, number_to_craft, df_raw, df_craft>>

\* return s
RenderFinish ==
  /\ rstack # <<>>
  /\ RTop.pc = "loop"
  /\ RTop.i > Len(RTop.recipe.itemIngredients)
  /\ RenderReturn(RTop.s)
  /\ UNCHANGED <<data, resolver, number_to_craft, df_raw, df_craft>>

(***************************************************************************)
(* The slider: a new value reruns the script                               *)
(***************************************************************************)
Slider ==
  /\ phase = "done"
  /\ \E n \in SliderValues \ {number_to_craft} : number_to_craft' = n
  /\ phase' = "start"
  /\ raw' = EmptyDict
  /\ craftables' = EmptyDict
  /\ have' = have \cap {"unit_raw"}
  /\ error' = ""
  /\ last' = NoLast
  /\ df_raw' = EmptyDict
  /\ df_craft' = EmptyDict
  /\ tree' = <<>>
  /\ shown' = {}
  /\ ui_error' = ""
  /\ UNCHANGED <<data, stack, rstack, index_cache, unit_raw>>

Step ==
  \/ CallResolve
  \/ ResolveEnter
  \/ ResolveIngredient
  \/ ResolveFinish
  \/ CallCraftables
  \/ CraftablesEnter
  \/ CraftablesIngredient
  \/ CraftablesFinish
  \/ ShowRaw
  \/ ShowCraft
  \/ CallRenderTree
  \/ RenderEnter
  \/ RenderIngredient
  \/ RenderFinish

Next ==
  \/ CallResolve
  \/ ResolveEnter
  \/ ResolveIngredient
  \/ ResolveFinish
  \/ CallCraftables
  \/ CraftablesEnter
  \/ CraftablesIngredient
  \/ CraftablesFinish
  \/ ShowRaw
  \/ ShowCraft
  \/ CallRenderTree
  \/ RenderEnter
  \/ RenderIngredient
  \/ RenderFinish
  \/ Slider

Spec == Init /\ [][Next]_vars

\* the interpreter runs a started script to its end
LiveSpec == Init /\ [][Next]_vars /\ WF_vars(Step)

TypeOK ==
  /\ phase \in {"start", "resolve", "resolved", "raw_shown", "craftables", "crafted",
               "tree", "render", "done"}
  /\ ui_error \in {"", "KeyError", "RecursionError"}
  /\ shown \subseteq {"df_raw", "df_craft", "tree"}
  /\ (rstack # <<>>) <=> (phase = "render")
  /\ number_to_craft \in SliderValues
  /\ error \in {"", "KeyError", "ZeroDivisionError", "RecursionError"}
  /\ have \subseteq {"raw", "craftables", "unit_raw"}
  /\ (stack # <<>>) <=> (phase \in {"resolve", "craftables"})

(***************************************************************************)
(* Vocabulary of the properties, stated on the data and not through the    *)
(* operators above                                                         *)
(***************************************************************************)
OutputIds(r) == {r.outputs[j].id : j \in DOMAIN r.outputs}

HasProducer(t) == \E k \in DOMAIN loaded : t \in OutputIds(loaded[k])

\* the recipe declaring t that comes last in the catalog
LastProducer(t) ==
  loaded[CHOOSE k \in DOMAIN loaded :
           /\ t \in OutputIds(loaded[k])
           /\ \A j \in DOMAIN loaded : j > k => t \notin OutputIds(loaded[j])].id

\* the display name is one of the sand / charcoal names of the catalogs
NameMatches(t) ==
  /\ t \in DOMAIN items
  /\ items[t].name \in {DisplayName["sand"], DisplayName["charcoal"]}

Terminal(t) == ~HasProducer(t) \/ NameMatches(t)

\* the producing recipe is absent from the recipes passed, or has no outputs
Broken(t) ==
  /\ HasProducer(t)
  /\ \/ LastProducer(t) \notin DOMAIN recipes
     \/ recipes[LastProducer(t)].outputs = <<>>

Leaf(t) == Terminal(t) \/ Broken(t)

\* the least k with k * b >= q
CeilDiv(q, b) == CHOOSE k \in 0..q : k * b >= q /\ (k - 1) * b < q

Finished == phase = "done"

(***************************************************************************)
(* C1: a top-level call for a terminal item t (no index entry, or a sand / *)
(* charcoal name even with a producing recipe) with needed = q returns     *)
(* {t: q} from resolve and {} from resolve_craftables, raises nothing, and *)
(* no override item is ever expanded through its recipe.                   *)
(***************************************************************************)
C1_TerminalResolvesToItself ==
  /\ Terminal(target_id) =>
       /\ error = ""
       /\ "raw" \in have => raw = Single(target_id, number_to_craft)
       /\ "craftables" \in have => craftables = EmptyDict
       /\ Finished => {"raw", "craftables"} \subseteq have
  /\ \A k \in DOMAIN stack : NameMatches(stack[k].item_id) => stack[k].pc = "enter"

C1_Witness ==
  /\ Finished
  /\ target_id = "sand"
  /\ HasProducer("sand")
  /\ number_to_craft = 7
  /\ raw = Single("sand", 7)
  /\ have = {"raw", "craftables", "unit_raw"}

(***************************************************************************)
(* C2: an expanded item with batch size b >= 1 requested for q >= 1 has    *)
(* crafts_needed = the least k with k * b >= q, and resolve asks each      *)
(* ingredient with per-craft count c for exactly c * crafts_needed;        *)
(* batch 5 requested for 7 gives 2 crafts.                                 *)
(***************************************************************************)
C2_CeilingBatches ==
  /\ \A k \in DOMAIN stack :
       LET f == stack[k]
           b == Head(f.recipe.outputs).count
       IN (f.pc = "loop" /\ b >= 1) =>
            /\ f.needed >= 1
            /\ f.crafts_needed * b >= f.needed
            /\ (f.crafts_needed - 1) * b < f.needed
            /\ (b = 5 /\ f.needed = 7) => f.crafts_needed = 2
  /\ \A k \in DOMAIN stack :
       (k > 1 /\ stack[k].fn = "resolve") =>
          LET caller == stack[k - 1]
              ing == caller.recipe.itemIngredients[caller.i]
          IN stack[k].needed = ing.count * caller.crafts_needed
  /\ (shape = "linear" /\ target_id = "plank" /\ "raw" \in have) =>
        raw = Single("wood", loaded[1].itemIngredients[1].count
                               * CeilDiv(number_to_craft, loaded[1].outputs[1].count))

C2_Witness ==
  /\ Len(stack) = 2
  /\ stack[1].fn = "resolve"
  /\ stack[1].needed = 7
  /\ Head(stack[1].recipe.outputs).count = 5
  /\ stack[1].crafts_needed = 2
  /\ stack[2].needed = 4 * 2

(***************************************************************************)
(* C3: in resolve the visited set of an activation holds exactly the items *)
(* on its own path, so a sibling branch never suppresses another: an item  *)
(* reached through two branches gets the sum of both contributions.        *)
(***************************************************************************)
C3_SiblingBranchesSum ==
  /\ \A k \in DOMAIN stack :
       stack[k].fn = "resolve" =>
         stack[k].visited =
           {stack[j].item_id : j \in 1..(k - 1)}
             \cup (IF stack[k].pc = "loop" THEN {stack[k].item_id} ELSE {})
  /\ (shape = "diamond" /\ target_id = "table" /\ "raw" \in have) =>
       LET b == loaded[1].outputs[1].count
           c == loaded[1].itemIngredients[1].count
           n == number_to_craft
       IN raw = Single("wood", c * CeilDiv(2 * n, b) + 3 * (c * n) + n)
  /\ (shape = "twice" /\ target_id = "table" /\ "raw" \in have) =>
       LET b == loaded[1].outputs[1].count
           c == loaded[2].itemIngredients[1].count
           n == number_to_craft
       IN raw = Single("wood", 2 * CeilDiv(c * n, b) + 2 * CeilDiv(n, b))

C3_Witness ==
  /\ shape = "diamond"
  /\ target_id = "table"
  /\ number_to_craft = 2
  /\ loaded[1].outputs[1].count = 3
  /\ loaded[1].itemIngredients[1].count = 2
  /\ "raw" \in have
  /\ raw = Single("wood", 4 + 12 + 2)

(***************************************************************************)
(* C4: on every recipe graph, cyclic ones included, each started script    *)
(* run ends; the call stack never holds more activations than there are    *)
(* item ids plus one; an activation entered for an item already on its     *)
(* path returns at once and leaves the caller's breakdown as it was; and   *)
(* on data with no malformed entry the calls return breakdowns.            *)
(***************************************************************************)
IngredientIds ==
  UNION {{loaded[k].itemIngredients[j].id : j \in DOMAIN loaded[k].itemIngredients} :
           k \in DOMAIN loaded}

AllIds == DOMAIN items \cup IngredientIds \cup {target_id}

\* no first output with count 0, no ingredient without id or count
RecipeSound(r) ==
  /\ r.outputs # <<>> => Head(r.outputs).count # 0
  /\ \A j \in DOMAIN r.itemIngredients :
       r.itemIngredients[j].id # NoId /\ r.itemIngredients[j].count # NoCount

DataSound == \A rid \in DOMAIN recipes : RecipeSound(recipes[rid])

ReEntry == stack # <<>> /\ Top.pc = "enter" /\ Top.item_id \in Top.visited

C4_CyclesTerminate ==
  /\ [](Len(stack) <= Cardinality(AllIds) + 1)
  /\ [](DataSound => error = "")
  /\ [](Finished /\ error = "" => {"raw", "craftables"} \subseteq have)
  /\ [][ReEntry =>
          /\ Len(stack') = Len(stack) - 1
          /\ stack'[Len(stack')].breakdown = stack[Len(stack) - 1].breakdown
          /\ last'.value = EmptyDict]_vars
  /\ (~Finished) ~> Finished

C4_Witness ==
  /\ shape = "cycle"
  /\ target_id = "table"
  /\ last.fn = "resolve"
  /\ last.item_id = "table"
  /\ last.depth = 3
  /\ last.value = EmptyDict
  /\ Len(stack) = 2

(***************************************************************************)
(* C5: resolve_craftables(root, q) reports each craftable ingredient of    *)
(* the root's recipe with ceil(c * crafts_needed(root) / batch(ingredient))*)
(* craft operations (summed when the ingredient is listed more than once;  *)
(* the root itself, if it is its own ingredient, is cut by the cycle       *)
(* guard) and nothing below it: from house in wood <- plank <- table <-    *)
(* house only table is reported, and for 2 wood per plank, 4 planks per    *)
(* table, resolve_craftables(table, 1) = {plank: 4}.                       *)
(***************************************************************************)
\* the recipe the output index gives for a non-leaf item
Prod(t) == recipes[LastProducer(t)]

EntryCount(e) == IF e.count = NoCount THEN 1 ELSE e.count

\* batch size read from the first declared output
Batch(t) == EntryCount(Head(Prod(t).outputs))

RECURSIVE EntrySum(_, _, _)
\* sum, over the entries of ings naming m, of the crafts of m they ask for
EntrySum(ings, m, cn) ==
  IF ings = <<>> THEN 0
  ELSE (IF Head(ings).id = m
        THEN CeilDiv(EntryCount(Head(ings)) * cn, Batch(m))
        ELSE 0) + EntrySum(Tail(ings), m, cn)

\* the ingredients of root that are intermediates
CraftableIngredients(root) ==
  {Prod(root).itemIngredients[j].id : j \in DOMAIN Prod(root).itemIngredients}
     \cap {m \in AllIds : m # NoId /\ m # root /\ ~Leaf(m)}

C5_OneLevelOfIntermediates ==
  /\ ("craftables" \in have /\ ~Leaf(target_id)) =>
       /\ DOMAIN craftables = CraftableIngredients(target_id)
       /\ \A m \in DOMAIN craftables :
            craftables[m] =
              EntrySum(Prod(target_id).itemIngredients, m,
                       CeilDiv(number_to_craft, Batch(target_id)))
  /\ (shape = "chain" /\ target_id = "house" /\ "craftables" \in have) =>
       DOMAIN craftables = {"table"}
  /\ ( /\ shape = "linear" /\ target_id = "table" /\ number_to_craft = 1
       /\ loaded[1].outputs[1].count = 1 /\ loaded[1].itemIngredients[1].count = 2
       /\ loaded[2].outputs[1].count = 1 /\ loaded[2].itemIngredients[1].count = 4
       /\ "craftables" \in have ) => craftables = Single("plank", 4)
  /\ \A k \in DOMAIN stack :
       stack[k].fn = "resolve_craftables" => k <= 2 /\ (stack[k].pc = "loop" => k = 1)

C5_Witness ==
  /\ shape = "chain"
  /\ target_id = "house"
  /\ number_to_craft = 3
  /\ loaded[2].outputs[1].count = 5
  /\ loaded[3].itemIngredients[1].count = 4
  /\ "craftables" \in have
  /\ craftables = Single("table", 3)

(***************************************************************************)
(* C6: every key of a breakdown of resolve is a leaf item (terminal, or    *)
(* with a missing or output-less recipe) and no leaf item is ever          *)
(* expanded; every key of a breakdown of resolve_craftables is a non-leaf  *)
(* item with a producing recipe, and never the root, even when the root    *)
(* is among its own ingredients.                                           *)
(***************************************************************************)
C6_KindsOfKeys ==
  /\ \A k \in DOMAIN stack : stack[k].pc = "loop" => ~Leaf(stack[k].item_id)
  /\ \A k \in DOMAIN stack :
       stack[k].fn = "resolve" => \A m \in DOMAIN stack[k].breakdown : Leaf(m)
  /\ \A m \in DOMAIN raw : Leaf(m)
  /\ \A k \in DOMAIN stack :
       stack[k].fn = "resolve_craftables" =>
         \A m \in DOMAIN stack[k].breakdown :
            ~Leaf(m) /\ HasProducer(m) /\ m # target_id
  /\ \A m \in DOMAIN craftables : ~Leaf(m) /\ HasProducer(m) /\ m # target_id

C6_Witness ==
  /\ shape = "cycle"
  /\ target_id = "table"
  /\ Finished
  /\ number_to_craft = 2
  /\ DOMAIN raw = {"wood"}
  /\ DOMAIN craftables = {"plank"}

(***************************************************************************)
(* C7: an item whose index entry names a recipe absent from the recipes    *)
(* passed, or a recipe without outputs, is resolved as a leaf: resolve     *)
(* returns {item_id: needed}, resolve_craftables returns {}, nothing is    *)
(* raised and the resolution it is part of goes on.                        *)
(***************************************************************************)
C7_BrokenRecipeIsLeaf ==
  /\ (Broken(last.item_id) /\ ~NameMatches(last.item_id)) =>
        last.value = IF last.fn = "resolve"
                     THEN Single(last.item_id, last.needed)
                     ELSE EmptyDict
  /\ (Broken(target_id) /\ ~NameMatches(target_id)) =>
       /\ error = ""
       /\ "raw" \in have => raw = Single(target_id, number_to_craft)
       /\ "craftables" \in have => craftables = EmptyDict
       /\ Finished => {"raw", "craftables"} \subseteq have
  /\ ( /\ shape \in {"missing", "no_outputs"}
       /\ target_id = "table" /\ Broken("plank") /\ ~Broken("table") ) =>
       /\ error = ""
       /\ "raw" \in have =>
            raw = [m \in {"plank", "wood"} |->
                     IF m = "plank"
                     THEN loaded[2].itemIngredients[1].count * number_to_craft
                     ELSE number_to_craft]
       /\ "craftables" \in have => craftables = EmptyDict
       /\ Finished => {"raw", "craftables"} \subseteq have

C7_Witness ==
  /\ shape = "missing"
  /\ target_id = "table"
  /\ "r_plank" \notin DOMAIN recipes
  /\ number_to_craft = 3
  /\ Finished
  /\ raw = [m \in {"plank", "wood"} |-> IF m = "plank" THEN 6 ELSE 3]
  /\ craftables = EmptyDict
  /\ have = {"raw", "craftables", "unit_raw"}

(***************************************************************************)
(* C8: no exception leaves a top-level resolve or resolve_craftables call  *)
(* with quantity >= 1, whatever entry of the data is malformed.            *)
(***************************************************************************)
C8_NoExceptionPropagates == error = ""

(***************************************************************************)
(* C9: when every recipe reachable from the item has batch size 1, the     *)
(* result of resolve for q is q times the result for 1, key by key, with   *)
(* the same keys; 2 wood per plank and 4 planks per table give             *)
(* resolve(table, 1) = {wood: 8}.                                          *)
(***************************************************************************)
IngredientsOf(t) ==
  {Prod(t).itemIngredients[j].id : j \in DOMAIN Prod(t).itemIngredients}

RECURSIVE ReachFrom(_, _)
ReachFrom(S, n) ==
  IF n = 0 THEN S
  ELSE ReachFrom(S \cup UNION {IngredientsOf(t) : t \in {u \in S : ~Leaf(u)}}, n - 1)

Reachable == ReachFrom({target_id}, Cardinality(AllIds))

AllBatchOne == \A t \in Reachable : ~Leaf(t) => Batch(t) = 1

C9_LinearInQuantity ==
  /\ ({"raw", "unit_raw"} \subseteq have /\ AllBatchOne) =>
       /\ DOMAIN raw = DOMAIN unit_raw
       /\ \A m \in DOMAIN raw : raw[m] = number_to_craft * unit_raw[m]
  /\ ( /\ shape = "linear" /\ target_id = "table"
       /\ loaded[1].outputs[1].count = 1 /\ loaded[1].itemIngredients[1].count = 2
       /\ loaded[2].outputs[1].count = 1 /\ loaded[2].itemIngredients[1].count = 4
       /\ "unit_raw" \in have ) => unit_raw = Single("wood", 8)

C9_Witness ==
  /\ shape = "linear"
  /\ target_id = "table"
  /\ AllBatchOne
  /\ number_to_craft = 7
  /\ have = {"raw", "craftables", "unit_raw"}
  /\ unit_raw = Single("wood", 8)
  /\ raw = Single("wood", 56)

(***************************************************************************)
(* C10: craftable_index maps an item id to a recipe id exactly when some   *)
(* recipe declares the item among its outputs; the mapped recipe declares  *)
(* it, and among several recipes declaring it the one iterated last wins.  *)
(***************************************************************************)
C10_IndexIsLastProducer ==
  index_cache.cached =>
    /\ \A t \in AllIds \cup DOMAIN index_cache.value :
         t \in DOMAIN index_cache.value <=> HasProducer(t)
    /\ \A t \in DOMAIN index_cache.value :
         /\ index_cache.value[t] = LastProducer(t)
         /\ \E k \in DOMAIN loaded :
              loaded[k].id = index_cache.value[t] /\ t \in OutputIds(loaded[k])

C10_Witness ==
  /\ shape = "producers"
  /\ index_cache.cached
  /\ loaded[1].id = "r_plank"
  /\ loaded[2].id = "r_both"
  /\ index_cache.value["plank"] = "r_both"
  /\ index_cache.value["leg"] = "r_both"

(***************************************************************************)
(* C13: the crafts computed for an expanded item cover what is needed:     *)
(* crafts_needed times the count of the item among the outputs of its      *)
(* recipe is at least needed, also when the item is not the first output.  *)
(***************************************************************************)
RECURSIVE OutputCount(_, _)
\* units of item t one craft yields: the counts of the outputs naming t
OutputCount(outputs, t) ==
  IF outputs = <<>> THEN 0
  ELSE (IF Head(outputs).id = t THEN EntryCount(Head(outputs)) ELSE 0)
         + OutputCount(Tail(outputs), t)

C13_CraftsCoverQuantity ==
  \A k \in DOMAIN stack :
    stack[k].pc = "loop" =>
      stack[k].crafts_needed * OutputCount(stack[k].recipe.outputs, stack[k].item_id)
        >= stack[k].needed

(***************************************************************************)
(* C11: render_tree ends on cyclic recipe data as the resolver does: its   *)
(* recursion is no deeper than the number of item ids plus one, and for a  *)
(* recipe graph where table needs plank and plank needs table, or table    *)
(* needs itself, it returns a text.                                        *)
(***************************************************************************)
C11_RenderTreeEndsOnCycles ==
  /\ Len(rstack) <= Cardinality(AllIds) + 1
  /\ (Finished /\ shape \in {"cycle", "self"}) => "tree" \in shown

(***************************************************************************)
(* C12: every "(raw)" line of the tree carries the display name of an item *)
(* the resolver classifies as terminal, and on acyclic data the items      *)
(* rendered as raw are the keys of resolve(root).                          *)
(***************************************************************************)
RawTexts == {tree[k].text : k \in {j \in DOMAIN tree : tree[j].kind = "raw"}}

C12_RawLinesAreTerminalNames ==
  "tree" \in shown =>
    /\ \A text \in RawTexts :
         \E t \in DOMAIN items : Terminal(t) /\ items[t].name = text
    /\ ("raw" \in have /\ DOMAIN raw \subseteq DOMAIN items) =>
          RawTexts = {items[m].name : m \in DOMAIN raw}

(***************************************************************************)
(* C14: the quantity shown for each raw material and for each intermediate *)
(* is the one the resolver returned for needed = the slider value: the     *)
(* requested quantity is applied once.                                     *)
(***************************************************************************)
C14_TablesShowNeeded ==
  /\ "df_raw" \in shown =>
       \A m \in DOMAIN raw : df_raw[items[m].name] = raw[m]
  /\ "df_craft" \in shown =>
       \A m \in DOMAIN craftables : df_craft[m].Quantity = craftables[m]

====
